---- MODULE Spec2Model ----
(***************************************************************************)
(* A model of xbits.h: the integer bit-manipulation primitives of the      *)
(* xbits namespace.  A machine word is the set of its set bit positions    *)
(* (bit 0 is the least significant), so that 64-bit words are exact; a     *)
(* C++ operand is a record of its bits, its integer type and whether its   *)
(* evaluation ran into undefined behaviour.  The arithmetic operators      *)
(* follow the C++ rules: integral promotion to int, the usual arithmetic   *)
(* conversions, wrap-around of unsigned arithmetic, truncation by          *)
(* static_cast.                                                            *)
(***************************************************************************)
EXTENDS Integers, FiniteSets, Sequences, TLC

VARIABLES op, ty, x, n, res, bres, x0

vars == <<op, ty, x, n, res, bres, x0>>

(***************************************************************************)
(* Bounds of the model and constants of the program.                       *)
(***************************************************************************)
\* the inputs 0..MaxSmall and the MaxSmall+1 largest words of each type are drawn
MaxSmall == 16

\* the addresses 0..MaxAddr and the MaxAddr+1 largest words of each type are drawn
MaxAddr == 4

\* width in bits of int (the type of AlignTo, of p, of s and of the literal 1)
IntBits == 32

\* width in bits of the widest integer type, std::uint64_t
MaxBits == 64

\* AlignTo is a positive int: its largest power of two is 2^MaxAlignExp
MaxAlignExp == 30

(***************************************************************************)
(* Unbounded naturals and integers, for the mathematical side of a claim.  *)
(* A natural is the finite set of its set bit positions.                   *)
(***************************************************************************)
SetMax(S) == CHOOSE m \in S : \A j \in S : j <= m

Top(a) == IF a = {} THEN 0 ELSE SetMax(a) + 1

Bit(c) == IF c THEN 1 ELSE 0

RECURSIVE ToInt(_)
\* the number a small word stands for (its bits are below bit 31)
ToInt(v) == IF v = {} THEN 0 ELSE LET k == SetMax(v) IN 2^k + ToInt(v \ {k})

\* the natural i < 2^31 as a set of bits
NatOf(i) == {b \in 0..30 : (i \div 2^b) % 2 = 1}

\* the j-th 16-bit limb of a, as a number, and a number as the j-th limb
Limb(a, j) == ToInt({i - 16 * j : i \in a \cap ((16 * j)..(16 * j + 15))})

FromLimb(l, j, w) ==
    IF 16 * j >= w THEN {}
    ELSE {b + 16 * j : b \in {c \in 0..15 : (l \div 2^c) % 2 = 1}}

\* bits 0..w-1 of a + b + c for a carry c, w <= 80: limb by limb
AddBits(a, b, c, w) ==
    LET s0 == Limb(a, 0) + Limb(b, 0) + Bit(c)
        s1 == Limb(a, 1) + Limb(b, 1) + (s0 \div 65536)
        s2 == Limb(a, 2) + Limb(b, 2) + (s1 \div 65536)
        s3 == Limb(a, 3) + Limb(b, 3) + (s2 \div 65536)
        s4 == Limb(a, 4) + Limb(b, 4) + (s3 \div 65536)
    IN  (FromLimb(s0, 0, w) \cup FromLimb(s1, 1, w) \cup FromLimb(s2, 2, w)
           \cup FromLimb(s3, 3, w) \cup FromLimb(s4, 4, w)) \cap (0..(w - 1))

\* the j-th 8-bit limb of a, as a number
Limb8(a, j) == ToInt({i - 8 * j : i \in a \cap ((8 * j)..(8 * j + 7))})

RECURSIVE ColProd(_, _, _, _)
\* the sum of the limb products A[j] * B[k-j] for j in i..k
ColProd(A, B, k, i) ==
    IF i > k THEN 0
    ELSE A[i] * B[k - i] + ColProd(A, B, k, i + 1)

FromLimb8(l, j, w) ==
    IF 8 * j >= w THEN {}
    ELSE {b + 8 * j : b \in {c \in 0..7 : (l \div 2^c) % 2 = 1}}

\* bits 0..w-1 of a * b, for w up to 64: long multiplication in 8-bit
\* limbs, column by column with the carry of the column before
MulBits(a, b, w) ==
    LET A == [j \in 0..7 |-> Limb8(a, j)]
        B == [j \in 0..7 |-> Limb8(b, j)]
        s0 == ColProd(A, B, 0, 0)
        s1 == ColProd(A, B, 1, 0) + (s0 \div 256)
        s2 == ColProd(A, B, 2, 0) + (s1 \div 256)
        s3 == ColProd(A, B, 3, 0) + (s2 \div 256)
        s4 == ColProd(A, B, 4, 0) + (s3 \div 256)
        s5 == ColProd(A, B, 5, 0) + (s4 \div 256)
        s6 == ColProd(A, B, 6, 0) + (s5 \div 256)
        s7 == ColProd(A, B, 7, 0) + (s6 \div 256)
    IN  (FromLimb8(s0, 0, w) \cup FromLimb8(s1, 1, w) \cup FromLimb8(s2, 2, w)
           \cup FromLimb8(s3, 3, w) \cup FromLimb8(s4, 4, w)
           \cup FromLimb8(s5, 5, w) \cup FromLimb8(s6, 6, w)
           \cup FromLimb8(s7, 7, w)) \cap (0..(w - 1))

\* the word of the 16-bit limbs l[1] (lowest), l[2], ...
Hex16(l) == UNION {FromLimb(l[j], j - 1, 16 * Len(l)) : j \in 1..Len(l)}

\* a + b, exactly
NatAdd(a, b) == AddBits(a, b, FALSE, Top(a \cup b) + 1)

NatLt(a, b) == \E i \in b \ a : \A j \in a \cup b : j > i => (j \in a <=> j \in b)

NatLe(a, b) == a = b \/ NatLt(a, b)

\* a mathematical integer: sign and magnitude
ZInt(neg, mag) == [neg |-> neg /\ mag # {}, mag |-> mag]

ZLt(a, b) ==
    IF a.neg
    THEN (~b.neg) \/ NatLt(b.mag, a.mag)
    ELSE (~b.neg) /\ NatLt(a.mag, b.mag)

ZLe(a, b) == a = b \/ ZLt(a, b)

\* b - a for naturals a <= b
NatSub(b, a) ==
    LET w == Top(a \cup b) + 1
    IN  AddBits(b, (0..(w - 1)) \ a, TRUE, w)

\* z + m for an integer z and a natural m
ZAddNat(z, m) ==
    IF ~z.neg THEN ZInt(FALSE, NatAdd(z.mag, m))
    ELSE IF NatLe(z.mag, m) THEN ZInt(FALSE, NatSub(m, z.mag))
    ELSE ZInt(TRUE, NatSub(z.mag, m))

\* z is a multiple of 2^k
ZMultipleOfPow2(z, k) == z.mag \cap (0..(k - 1)) = {}

(***************************************************************************)
(* Integer types and the C++ arithmetic on them.                           *)
(***************************************************************************)
IntType(w, s) == [w |-> w, s |-> s]

\* int
IntT == IntType(IntBits, TRUE)

\* std::uint8_t .. std::uint64_t, std::int8_t .. std::int64_t
Types == {IntType(w, s) : w \in {8, 16, IntBits, MaxBits}, s \in BOOLEAN}

\* std::uint32_t and std::uint64_t
uint32_t == IntType(IntBits, FALSE)

uint64_t == IntType(MaxBits, FALSE)

\* to_uint_t<T>: the unsigned type of sizeof(T) bytes
to_uint_t(T) == IntType(T.w, FALSE)

Word(w) == 0..(w - 1)

\* a C++ operand
Val(v, t) == [v |-> v, t |-> t, ub |-> FALSE]

IsNeg(e) == e.t.s /\ (e.t.w - 1) \in e.v

\* the mathematical value of an operand
ZVal(e) ==
    IF IsNeg(e)
    THEN ZInt(TRUE, AddBits(Word(e.t.w) \ e.v, {}, TRUE, e.t.w + 1))
    ELSE ZInt(FALSE, e.v)

\* static_cast<T>(e), and every implicit conversion: sign- or zero-extend, truncate
Conv(e, T) ==
    LET ext == IF IsNeg(e) THEN e.v \cup (e.t.w..(MaxBits - 1)) ELSE e.v
    IN  [v |-> ext \cap Word(T.w), t |-> T, ub |-> e.ub]

\* integral promotion: a type narrower than int becomes int
PromotedType(T) == IF T.w < IntBits THEN IntT ELSE T

Promote(e) == Conv(e, PromotedType(e.t))

\* the usual arithmetic conversions: the common type of two promoted types
Common(A, B) ==
    IF A.w = B.w THEN IntType(A.w, A.s /\ B.s)
    ELSE IF A.w > B.w THEN A ELSE B

CommonOf(a, b) == Common(Promote(a).t, Promote(b).t)

\* a + b; signed overflow is undefined behaviour (the wrapped value is kept)
CAdd(a, b) ==
    LET T == CommonOf(a, b)
        ca == Conv(a, T)
        cb == Conv(b, T)
        r == Val(AddBits(ca.v, cb.v, FALSE, T.w), T)
        ovf == T.s /\ IsNeg(ca) = IsNeg(cb) /\ IsNeg(r) # IsNeg(ca)
    IN  [r EXCEPT !.ub = a.ub \/ b.ub \/ ovf]

\* a - b
CSub(a, b) ==
    LET T == CommonOf(a, b)
        ca == Conv(a, T)
        cb == Conv(b, T)
        r == Val(AddBits(ca.v, Word(T.w) \ cb.v, TRUE, T.w), T)
        ovf == T.s /\ IsNeg(ca) # IsNeg(cb) /\ IsNeg(r) # IsNeg(ca)
    IN  [r EXCEPT !.ub = a.ub \/ b.ub \/ ovf]

\* -a
CNeg(a) == CSub(Val({}, IntT), a)

\* a & b
CAnd(a, b) ==
    LET T == CommonOf(a, b)
    IN  [v |-> Conv(a, T).v \cap Conv(b, T).v, t |-> T, ub |-> a.ub \/ b.ub]

\* a | b
COr(a, b) ==
    LET T == CommonOf(a, b)
    IN  [v |-> Conv(a, T).v \cup Conv(b, T).v, t |-> T, ub |-> a.ub \/ b.ub]

\* a ^ b
CXor(a, b) ==
    LET T == CommonOf(a, b)
        ca == Conv(a, T).v
        cb == Conv(b, T).v
    IN  [v |-> (ca \ cb) \cup (cb \ ca), t |-> T, ub |-> a.ub \/ b.ub]

\* a * b for operands whose common type is unsigned: the product modulo 2^w
CMul(a, b) ==
    LET T == CommonOf(a, b)
    IN  [v |-> MulBits(Conv(a, T).v, Conv(b, T).v, T.w), t |-> T,
         ub |-> a.ub \/ b.ub]

\* a >> s for a count s >= 0: arithmetic on a negative a; undefined for s >= width
CShr(a, s) ==
    LET p == Promote(a)
        c == s % p.t.w
        fill == IF IsNeg(p) THEN (p.t.w - c)..(p.t.w - 1) ELSE {}
    IN  [v |-> {i - c : i \in {j \in p.v : j >= c}} \cup fill,
         t |-> p.t, ub |-> a.ub \/ s >= p.t.w]

\* a << s for a count s >= 0; undefined for s >= width (the count modulo the
\* width is kept, what an x86 shift does)
CShl(a, s) ==
    LET p == Promote(a)
        c == s % p.t.w
    IN  [v |-> {i + c : i \in p.v} \cap Word(p.t.w),
         t |-> p.t, ub |-> a.ub \/ s >= p.t.w]

\* a < b, a <= b, a == b after the usual arithmetic conversions
CLt(a, b) == LET T == CommonOf(a, b) IN ZLt(ZVal(Conv(a, T)), ZVal(Conv(b, T)))

CLe(a, b) == LET T == CommonOf(a, b) IN ZLe(ZVal(Conv(a, T)), ZVal(Conv(b, T)))

CEq(a, b) == LET T == CommonOf(a, b) IN Conv(a, T).v = Conv(b, T).v

\* the int literals 0 and 1
Lit0 == Val({}, IntT)

Lit1 == Val({0}, IntT)

\* an int of value i >= 0
IntOf(i) == Val(NatOf(i), IntT)

(***************************************************************************)
(* Alignment.                                                              *)
(***************************************************************************)
\* Align with AlignTo added in place of AlignTo - 1
Align_PlusAlignTo(T, Address, AlignTo) ==
    LET unsigned_t == to_uint_t(T)
        a == Val(AlignTo, IntT)
    IN  Conv(CAnd(CAdd(Conv(Val(Address, T), unsigned_t), Conv(a, unsigned_t)),
                  Conv(CNeg(a), unsigned_t)), T)

\* Align( T Address, const int AlignTo )
Align(T, Address, AlignTo) ==
    LET unsigned_t == to_uint_t(T)
        a == Val(AlignTo, IntT)
    IN  Conv(CAnd(CAdd(Conv(Val(Address, T), unsigned_t),
                       CSub(Conv(a, unsigned_t), Lit1)),
                  Conv(CNeg(a), unsigned_t)), T)

\* AlignLower with the mask AlignTo - 1 in place of -AlignTo
AlignLower_LowMask(T, Address, AlignTo) ==
    LET unsigned_t == to_uint_t(T)
        a == Val(AlignTo, IntT)
    IN  Conv(CAnd(Conv(Val(Address, T), unsigned_t), CSub(a, Lit1)), T)

\* AlignLower( T Address, const int AlignTo )
AlignLower(T, Address, AlignTo) ==
    LET unsigned_t == to_uint_t(T)
        a == Val(AlignTo, IntT)
    IN  Conv(CAnd(Conv(Val(Address, T), unsigned_t), CNeg(a)), T)

\* isAlign with the mask AlignTo in place of AlignTo - 1
isAlign_MaskAlignTo(T, Addr, AlignTo) ==
    LET unsigned_t == to_uint_t(T)
        a == Val(AlignTo, IntT)
    IN  CEq(CAnd(Conv(Val(Addr, T), unsigned_t), Conv(a, unsigned_t)), Lit0)

\* isAlign( T Addr, const int AlignTo )
isAlign(T, Addr, AlignTo) ==
    LET unsigned_t == to_uint_t(T)
        a == Val(AlignTo, IntT)
    IN  CEq(CAnd(Conv(Val(Addr, T), unsigned_t),
                 CSub(Conv(a, unsigned_t), Lit1)), Lit0)

(***************************************************************************)
(* Powers of two and logarithms.                                           *)
(***************************************************************************)
\* SLeft( T n ): static_cast<T>(1 << n)
SLeft(T, nv) == Conv(CShl(Lit1, ToInt(nv)), T)

\* what stands for the result of a recursion deeper than MaxBits calls: each
\* call shifts one bit out of x, so a deeper recursion is one that does not end
NoReturn == {-1}

RECURSIVE Log2Int_LessThanOne(_, _, _)
\* Log2Int stopping at x < 1 in place of x <= 1
Log2Int_LessThanOne(T, xv, p) ==
    IF p > MaxBits THEN NoReturn
    ELSE IF CLt(Val(xv, T), Lit1)
    THEN Conv(IntOf(p), T).v
    ELSE IF T = PromotedType(T)
         THEN Log2Int_LessThanOne(T, CShr(Val(xv, T), 1).v, p + 1)
         ELSE Conv(Val(Log2Int_LessThanOne(PromotedType(T), CShr(Val(xv, T), 1).v, p + 1),
                       PromotedType(T)), T).v

RECURSIVE Log2Int(_, _, _)
\* Log2Int( T x, int p = 0 ): the recursive call deduces its T from x >> 1,
\* the promoted type of x, and its result is converted to the caller's T
\* (no conversion where the two types are the same)
Log2Int(T, xv, p) ==
    IF p > MaxBits THEN NoReturn
    ELSE IF CLe(Val(xv, T), Lit1)
    THEN Conv(IntOf(p), T).v
    ELSE IF T = PromotedType(T)
         THEN Log2Int(T, CShr(Val(xv, T), 1).v, p + 1)
         ELSE Conv(Val(Log2Int(PromotedType(T), CShr(Val(xv, T), 1).v, p + 1),
                       PromotedType(T)), T).v

RECURSIVE NextPowOfTwo_NoPlusOne(_, _, _)
\* NextPowOfTwo returning the smeared x in place of 1 + x
NextPowOfTwo_NoPlusOne(T, xe, s) ==
    IF s = 0
    THEN Conv(xe, T)
    ELSE NextPowOfTwo_NoPlusOne(T, Conv(COr(xe, CShr(xe, s)), T), s \div 2)

RECURSIVE NextPowOfTwo(_, _, _)
\* details::NextPowOfTwo( const T x, const int s ), x an operand of type T
NextPowOfTwo(T, xe, s) ==
    IF s = 0
    THEN Conv(CAdd(Lit1, xe), T)
    ELSE NextPowOfTwo(T, Conv(COr(xe, CShr(xe, s)), T), s \div 2)

\* isPowTwo( const T x ): !((x - 1) & x)
isPowTwo(T, xv) ==
    LET xe == Val(xv, T)
        e == CAnd(CSub(xe, Lit1), xe)
    IN  [b |-> e.v = {}, ub |-> e.ub]

\* isDivBy2PowerX( const T1 n, const T2 x ): (n & ((1 << x) - 1)) == 0
isDivBy2PowerX(T1, nv, xv) ==
    LET e == CAnd(Val(nv, T1), CSub(CShl(Lit1, ToInt(xv)), Lit1))
    IN  [b |-> CEq(e, Lit0), ub |-> e.ub]

\* Log2IntRoundUp without the + 1
Log2IntRoundUp_NoPlusOne(T, xv) ==
    IF CLt(Val(xv, T), Lit1)
    THEN Conv(Lit0, T).v
    ELSE Log2Int(T, xv, 0)

\* the static_assert table of Log2IntRoundUp: <<x, Log2IntRoundUp(x)>>
Log2IntRoundUpTable ==
    << <<0, 0>>, <<1, 1>>, <<2, 2>>, <<3, 2>>, <<4, 3>>, <<5, 3>>, <<6, 3>>,
       <<7, 3>>, <<8, 4>>, <<9, 4>>, <<10, 4>>, <<11, 4>>, <<12, 4>>, <<13, 4>>,
       <<1023, 10>>, <<1024, 11>> >>

\* Log2IntRoundUp( T x ): x < 1 ? 0 : Log2Int(x) + 1
Log2IntRoundUp(T, xv) ==
    IF CLt(Val(xv, T), Lit1)
    THEN Conv(Lit0, T).v
    ELSE Conv(CAdd(Val(Log2Int(T, xv, 0), T), Lit1), T).v

\* RoundToNextPowOfTwo smearing x in place of x - 1
RoundToNextPowOfTwo_NoDecrement(T, xv) ==
    LET xe == Val(xv, T)
    IN  IF CEq(xe, Lit0)
        THEN Conv(Lit0, T)
        ELSE NextPowOfTwo(T, xe, 4 * (T.w \div 8))

\* RoundToNextPowOfTwo( const T x )
RoundToNextPowOfTwo(T, xv) ==
    LET xe == Val(xv, T)
    IN  IF CEq(xe, Lit0)
        THEN Conv(Lit0, T)
        ELSE NextPowOfTwo(T, Conv(CSub(xe, Lit1), T), 4 * (T.w \div 8))

(***************************************************************************)
(* Flags.  The header declares the five functions and holds no body for    *)
(* them: the bodies are the formulas of the specification, section 4.3,    *)
(* on the declared parameters T N and std::uint32_t F.                     *)
(***************************************************************************)
\* FlagToggle( T& N, const std::uint32_t F ): N = N xor F
FlagToggle(T, Nv, Fv) == Conv(CXor(Val(Nv, T), Val(Fv, uint32_t)), T)

\* FlagOn( T& N, const std::uint32_t F ): N = N or F
FlagOn(T, Nv, Fv) == Conv(COr(Val(Nv, T), Val(Fv, uint32_t)), T)

\* FlagOff with not F taken over the 32 bits of F: the bits of N above bit
\* 31 are cleared
FlagOff_Not32(T, Nv, Fv) ==
    Conv(CAnd(Val(Nv, T), Val(Word(IntBits) \ Fv, uint32_t)), T)

\* FlagOff( T& N, const std::uint32_t F ): N = N and (not F), the bits of F
\* cleared in N
FlagOff(T, Nv, Fv) ==
    LET C == CommonOf(Val(Nv, T), Val(Fv, uint32_t))
    IN  Conv(CAnd(Val(Nv, T), Val(Word(C.w) \ Conv(Val(Fv, uint32_t), C).v, C)), T)

\* FlagIsOn( const T N, const std::uint32_t F ): (N and F) != 0
FlagIsOn(T, Nv, Fv) == ~CEq(CAnd(Val(Nv, T), Val(Fv, uint32_t)), Lit0)

\* FlagsAreOn( const T N, const std::uint32_t F ): (N and F) == F
FlagsAreOn(T, Nv, Fv) ==
    CEq(CAnd(Val(Nv, T), Val(Fv, uint32_t)), Val(Fv, uint32_t))

(***************************************************************************)
(* The MurmurHash3 finalizer.                                              *)
(***************************************************************************)
\* the literals 0x85ebca6b and 0xc2b2ae35: they do not fit an int, so they
\* are unsigned int
Lit85ebca6b == Val(Hex16(<<51819, 34283>>), uint32_t)

Litc2b2ae35 == Val(Hex16(<<44597, 49842>>), uint32_t)

\* the literals 0xff51afd7ed558ccd and 0xc4ceb9fe1a85ec53, of 64 bits
Litff51afd7ed558ccd == Val(Hex16(<<36045, 60757, 45015, 65361>>), uint64_t)

Litc4ceb9fe1a85ec53 == Val(Hex16(<<60499, 6789, 47614, 50382>>), uint64_t)

\* h ^= h >> s and h *= c on a variable h of type T
XorShift(T, h, s) == Conv(CXor(h, CShr(h, s)), T)

MulBy(T, h, c) == Conv(CMul(h, c), T)

\* murmurHash3_by_size<4>::Compute with the second shift of 16 in place of 13
murmurHash3_by_size_4_Shift16(hv) ==
    LET h0 == Val(hv, uint32_t)
        h1 == XorShift(uint32_t, h0, 16)
        h2 == MulBy(uint32_t, h1, Lit85ebca6b)
        h3 == XorShift(uint32_t, h2, 16)
        h4 == MulBy(uint32_t, h3, Litc2b2ae35)
    IN  XorShift(uint32_t, h4, 16)

\* murmurHash3_by_size<4>::Compute( std::uint32_t h )
murmurHash3_by_size_4(hv) ==
    LET h0 == Val(hv, uint32_t)
        h1 == XorShift(uint32_t, h0, 16)
        h2 == MulBy(uint32_t, h1, Lit85ebca6b)
        h3 == XorShift(uint32_t, h2, 13)
        h4 == MulBy(uint32_t, h3, Litc2b2ae35)
    IN  XorShift(uint32_t, h4, 16)

\* murmurHash3_by_size<8>::Compute( std::uint64_t h )
murmurHash3_by_size_8(hv) ==
    LET h0 == Val(hv, uint64_t)
        h1 == XorShift(uint64_t, h0, 33)
        h2 == MulBy(uint64_t, h1, Litff51afd7ed558ccd)
        h3 == XorShift(uint64_t, h2, 33)
        h4 == MulBy(uint64_t, h3, Litc4ceb9fe1a85ec53)
    IN  XorShift(uint64_t, h4, 33)

\* the types MurmurHash3 accepts: the integral types of 4 to 8 bytes
HashTypes == {T \in Types : T.w \div 8 >= 4 /\ T.w \div 8 <= 8}

\* MurmurHash3<T>( h ): the argument cast to to_uint_t<T>, the result to T
MurmurHash3(T, hv) ==
    LET u == Conv(Val(hv, T), to_uint_t(T))
    IN  IF T.w \div 8 = 4
        THEN Conv(murmurHash3_by_size_4(Conv(u, uint32_t).v), T)
        ELSE Conv(murmurHash3_by_size_8(Conv(u, uint64_t).v), T)

(***************************************************************************)
(* Bit counting.  ctz32 has two definitions: one for _MSC_VER, over the    *)
(* intrinsic _BitScanForward, and the portable one over popcnt32.          *)
(***************************************************************************)
SetMin(S) == CHOOSE m \in S : \A j \in S : m <= j

\* _BitScanForward( &Index, Mask ): searches Mask from the lowest bit for a
\* set bit; returns nonzero and stores the position when there is one, and 0
\* when Mask is 0 (Index keeps the 0 it was initialised to, and is not read)
BitScanForward(Mask) ==
    [found |-> Mask # {}, Index |-> IF Mask = {} THEN {} ELSE NatOf(SetMin(Mask))]

\* ctz32( std::uint32_t value ) under _MSC_VER
ctz32_MSC_VER(value) ==
    LET scan == BitScanForward(value)
    IN  IF scan.found
        THEN Conv(Val(scan.Index, uint32_t), uint32_t)
        ELSE Conv(IntOf(32), uint32_t)

\* a statement x op= e on the uint32_t x: the value x holds after it
Assign32(e) == Conv(e, uint32_t)

\* The statements of a function body are the nested sets below, the first
\* statement innermost: x1 is x after the first statement, x2 after the
\* second, and so on; each is computed before the statement that reads it.

\* popcnt32 with the result masked by 0x1f in place of 0x3f
popcnt32_Mask1f(xv) ==
    CHOOSE r \in
        {Conv(CAnd(x5, IntOf(31)), uint32_t) :
         x5 \in {Assign32(CAdd(x4, CShr(x4, 16))) :
         x4 \in {Assign32(CAdd(x3, CShr(x3, 8))) :
         x3 \in {Assign32(CAnd(CAdd(CShr(x2, 4), x2), IntOf(252645135))) :
         x2 \in {Assign32(CAdd(CAnd(CShr(x1, 2), IntOf(858993459)),
                              CAnd(x1, IntOf(858993459)))) :
         x1 \in {Assign32(CSub(Val(xv, uint32_t),
                              CAnd(CShr(Val(xv, uint32_t), 1),
                                   IntOf(1431655765))))}}}}}} : TRUE

\* popcnt32( uint32_t x ): 0x55555555 = 1431655765, 0x33333333 = 858993459,
\* 0x0f0f0f0f = 252645135, 0x0000003f = 63
popcnt32(xv) ==
    CHOOSE r \in
        {Conv(CAnd(x5, IntOf(63)), uint32_t) :
         x5 \in {Assign32(CAdd(x4, CShr(x4, 16))) :
         x4 \in {Assign32(CAdd(x3, CShr(x3, 8))) :
         x3 \in {Assign32(CAnd(CAdd(CShr(x2, 4), x2), IntOf(252645135))) :
         x2 \in {Assign32(CAdd(CAnd(CShr(x1, 2), IntOf(858993459)),
                              CAnd(x1, IntOf(858993459)))) :
         x1 \in {Assign32(CSub(Val(xv, uint32_t),
                              CAnd(CShr(Val(xv, uint32_t), 1),
                                   IntOf(1431655765))))}}}}}} : TRUE

\* clz32 without the last smear x |= (x >> 16)
clz32_NoShift16(xv) ==
    CHOOSE r \in
        {Conv(CSub(IntOf(32), popcnt32(x4.v)), uint32_t) :
         x4 \in {Assign32(COr(x3, CShr(x3, 8))) :
         x3 \in {Assign32(COr(x2, CShr(x2, 4))) :
         x2 \in {Assign32(COr(x1, CShr(x1, 2))) :
         x1 \in {Assign32(COr(Val(xv, uint32_t),
                             CShr(Val(xv, uint32_t), 1)))}}}}} : TRUE

\* clz32( uint32_t x )
clz32(xv) ==
    CHOOSE r \in
        {Conv(CSub(IntOf(32), popcnt32(x5.v)), uint32_t) :
         x5 \in {Assign32(COr(x4, CShr(x4, 16))) :
         x4 \in {Assign32(COr(x3, CShr(x3, 8))) :
         x3 \in {Assign32(COr(x2, CShr(x2, 4))) :
         x2 \in {Assign32(COr(x1, CShr(x1, 2))) :
         x1 \in {Assign32(COr(Val(xv, uint32_t),
                             CShr(Val(xv, uint32_t), 1)))}}}}}} : TRUE

\* ctz32 counting the bits of x & -x in place of (x & -x) - 1
ctz32_NoMinusOne(xv) ==
    CHOOSE r \in
        {popcnt32(a.v) :
         a \in {Assign32(CAnd(Val(xv, uint32_t), CNeg(Val(xv, uint32_t))))}} : TRUE

\* ctz32( std::uint32_t x ), the portable definition: the argument
\* (x & -x) - 1 becomes the uint32_t parameter a of popcnt32
ctz32(xv) ==
    CHOOSE r \in
        {popcnt32(a.v) :
         a \in {Assign32(CSub(CAnd(Val(xv, uint32_t), CNeg(Val(xv, uint32_t))),
                              Lit1))}} : TRUE

(***************************************************************************)
(* Undefined behaviour.  An evaluation that overflowed a signed type or    *)
(* shifted by the width or more may produce the value the hardware         *)
(* computes (the one kept in the operand) or any other: of the others, the *)
(* model offers zero and all ones.                                         *)
(***************************************************************************)
Outcomes(e) == IF e.ub THEN {e.v, {}, Word(e.t.w)} ELSE {e.v}

BoolOutcomes(r) == IF r.ub THEN BOOLEAN ELSE {r.b}

(***************************************************************************)
(* Inputs.                                                                 *)
(***************************************************************************)
\* the words of width w that are drawn: the small ones, the largest ones, and
\* 2^k - 1, 2^k, 2^k + 1 and 2^k + 2^(k-1) + 1 for every bit k
Inputs(w) ==
    {NatOf(i) : i \in 0..MaxSmall}
    \cup {Word(w) \ NatOf(i) : i \in 0..MaxSmall}
    \cup {NatOf(57), NatOf(100), NatOf(200)}
    \cup UNION {{0..(k - 1), {k}, {0, k}, {0, k - 1, k} \cap Word(w)} : k \in Word(w)}

\* the addresses of width w that are drawn: 0..MaxAddr, the MaxAddr+1 largest
\* words, 57, and 2^k - 1, 2^k, 2^k + 1 for the bits k next to a byte
\* boundary, among the lowest five or among the highest three
AddrInputs(w) ==
    {NatOf(i) : i \in 0..MaxAddr}
    \cup {Word(w) \ NatOf(i) : i \in 0..MaxAddr}
    \cup {NatOf(57)}
    \cup UNION {{0..(k - 1), {k}, {0, k}} :
                   k \in {j \in Word(w) : j <= 4 \/ j >= w - 3 \/ j % 8 \in {0, 7}}}

\* the alignments: the powers of two of a positive int
Alignments == {{k} : k \in 0..MaxAlignExp}

Init ==
    /\ op = "init"
    /\ ty = IntT
    /\ x = {}
    /\ n = {}
    /\ res = {}
    /\ bres = FALSE
    /\ x0 = {}

DoAlign ==
    /\ op = "init"
    /\ \E T \in Types : \E Address \in AddrInputs(T.w) : \E AlignTo \in Alignments :
           /\ op' = "Align"
           /\ ty' = T
           /\ x' = Address
           /\ n' = AlignTo
           /\ res' = Align(T, Address, AlignTo).v
           /\ UNCHANGED <<bres, x0>>

DoAlignLower ==
    /\ op = "init"
    /\ \E T \in Types : \E Address \in AddrInputs(T.w) : \E AlignTo \in Alignments :
           /\ op' = "AlignLower"
           /\ ty' = T
           /\ x' = Address
           /\ n' = AlignTo
           /\ res' = AlignLower(T, Address, AlignTo).v
           /\ UNCHANGED <<bres, x0>>

DoisAlign ==
    /\ op = "init"
    /\ \E T \in Types : \E Addr \in AddrInputs(T.w) : \E AlignTo \in Alignments :
           /\ op' = "isAlign"
           /\ ty' = T
           /\ x' = Addr
           /\ n' = AlignTo
           /\ bres' = isAlign(T, Addr, AlignTo)
           /\ UNCHANGED <<res, x0>>

\* the call returns: the next call starts from fresh arguments
Return ==
    /\ op # "init"
    /\ op' = "init"
    /\ ty' = IntT
    /\ x' = {}
    /\ n' = {}
    /\ res' = {}
    /\ bres' = FALSE
    /\ x0' = {}

NextAlign == DoAlign \/ DoAlignLower \/ DoisAlign \/ Return

SpecAlign == Init /\ [][NextAlign]_vars

(***************************************************************************)
(* The calls of the power-of-two functions.                                *)
(***************************************************************************)
\* the shift counts of a type of width w: 0 <= n < w
Counts(w) == {NatOf(i) : i \in Word(w)}

DoSLeft ==
    /\ op = "init"
    /\ \E T \in Types : \E c \in Counts(T.w) :
           /\ op' = "SLeft"
           /\ ty' = T
           /\ n' = c
           /\ res' \in Outcomes(SLeft(T, c))
           /\ UNCHANGED <<x, bres, x0>>

DoisPowTwo ==
    /\ op = "init"
    /\ \E T \in Types : \E v \in Inputs(T.w) :
           /\ op' = "isPowTwo"
           /\ ty' = T
           /\ x' = v
           /\ bres' \in BoolOutcomes(isPowTwo(T, v))
           /\ UNCHANGED <<n, res, x0>>

DoisDivBy2PowerX ==
    /\ op = "init"
    /\ \E T \in Types : \E v \in Inputs(T.w) : \E c \in Counts(T.w) :
           /\ op' = "isDivBy2PowerX"
           /\ ty' = T
           /\ x' = v
           /\ n' = c
           /\ bres' \in BoolOutcomes(isDivBy2PowerX(T, v, c))
           /\ UNCHANGED <<res, x0>>

NextPow == DoSLeft \/ DoisPowTwo \/ DoisDivBy2PowerX \/ Return

SpecPow == Init /\ [][NextPow]_vars

DoLog2Int ==
    /\ op = "init"
    /\ \E T \in Types : \E v \in Inputs(T.w) :
           /\ op' = "Log2Int"
           /\ ty' = T
           /\ x' = v
           /\ res' = Log2Int(T, v, 0)
           /\ UNCHANGED <<n, bres, x0>>

DoLog2IntRoundUp ==
    /\ op = "init"
    /\ \E T \in Types : \E v \in Inputs(T.w) :
           /\ op' = "Log2IntRoundUp"
           /\ ty' = T
           /\ x' = v
           /\ res' = Log2IntRoundUp(T, v)
           /\ UNCHANGED <<n, bres, x0>>

NextLog == DoLog2Int \/ DoLog2IntRoundUp \/ Return

SpecLog == Init /\ [][NextLog]_vars

DoRoundToNextPowOfTwo ==
    /\ op = "init"
    /\ \E T \in Types : \E v \in Inputs(T.w) :
           /\ op' = "RoundToNextPowOfTwo"
           /\ ty' = T
           /\ x' = v
           /\ res' \in Outcomes(RoundToNextPowOfTwo(T, v))
           /\ UNCHANGED <<n, bres, x0>>

\* RoundToNextPowOfTwo applied to its own result; x0 keeps the first argument
DoRoundAgain ==
    /\ op = "RoundToNextPowOfTwo"
    /\ op' = "RoundAgain"
    /\ x0' = x
    /\ x' = res
    /\ res' \in Outcomes(RoundToNextPowOfTwo(ty, res))
    /\ UNCHANGED <<ty, n, bres>>

NextRound == DoRoundToNextPowOfTwo \/ DoRoundAgain \/ Return

SpecRound == Init /\ [][NextRound]_vars

(***************************************************************************)
(* The calls of MurmurHash3.                                               *)
(***************************************************************************)
\* the words hashed: the drawn words and 0x12345678
HashInputs(w) == Inputs(w) \cup {Hex16(<<22136, 4660>>)}

DoMurmurHash3 ==
    /\ op = "init"
    /\ \E T \in HashTypes : \E h \in HashInputs(T.w) :
           /\ op' = "MurmurHash3"
           /\ ty' = T
           /\ x' = h
           /\ res' = MurmurHash3(T, h).v
           /\ UNCHANGED <<n, bres, x0>>

NextHash == DoMurmurHash3 \/ Return

SpecHash == Init /\ [][NextHash]_vars

(***************************************************************************)
(* The claims about alignment, under SpecAlign.                            *)
(***************************************************************************)
\* the argument and the result of the call as mathematical integers
ArgZ == ZVal(Val(x, ty))

ResZ == ZVal(Val(res, ty))

\* AlignTo = 2^AlignExp
AlignExp == SetMax(n)

\* z fits the type T
Representable(T, z) ==
    IF T.s
    THEN IF z.neg THEN NatLe(z.mag, {T.w - 1}) ELSE z.mag \subseteq 0..(T.w - 2)
    ELSE (~z.neg) /\ z.mag \subseteq Word(T.w)

\* r is the smallest multiple of 2^k that is >= z
SmallestMultipleAtLeast(r, z, k) ==
    /\ ZMultipleOfPow2(r, k)
    /\ ZLe(z, r)
    /\ ZLt(r, ZAddNat(z, {k}))

\* r is the largest multiple of 2^k that is <= z
LargestMultipleAtMost(r, z, k) ==
    /\ ZMultipleOfPow2(r, k)
    /\ ZLe(r, z)
    /\ ZLt(z, ZAddNat(r, {k}))

\* z rounded up and down to a multiple of 2^k
CeilMultiple(z, k) ==
    LET low == 0..(k - 1)
    IN  IF z.mag \cap low = {} THEN z
        ELSE IF z.neg THEN ZInt(TRUE, z.mag \ low)
        ELSE ZInt(FALSE, NatAdd(z.mag \ low, {k}))

FloorMultiple(z, k) ==
    LET low == 0..(k - 1)
    IN  IF z.mag \cap low = {} THEN z
        ELSE IF z.neg THEN ZInt(TRUE, NatAdd(z.mag \ low, {k}))
        ELSE ZInt(FALSE, z.mag \ low)

\* C1 as stated: for every Address of every type T and every AlignTo in
\* {1,2,4,...,2^30}, Align returns the smallest multiple of AlignTo that is
\* >= Address.  It fails at the top of the range of T.
C1_AlignEveryAddress ==
    op = "Align" => SmallestMultipleAtLeast(ResZ, ArgZ, AlignExp)

\* C1 amended: whenever the smallest multiple of AlignTo that is >= Address
\* is a value of T, Align returns it: a multiple of AlignTo, >= Address and
\* less than AlignTo above it; AlignTo = 1 and Address = 0 return Address.
C1_AlignSmallestMultiple ==
    op = "Align" /\ Representable(ty, CeilMultiple(ArgZ, AlignExp))
        => /\ SmallestMultipleAtLeast(ResZ, ArgZ, AlignExp)
           /\ ResZ = CeilMultiple(ArgZ, AlignExp)
           /\ (n = {0} \/ x = {}) => res = x

\* Align(57, 16) has returned 64
C1_Witness ==
    op = "Align" /\ x = NatOf(57) /\ n = {4} /\ res = {6}
        /\ Representable(ty, CeilMultiple(ArgZ, AlignExp))

\* C2 as stated: for every Address of every type T and every AlignTo in
\* {1,2,4,...,2^30}, AlignLower returns the largest multiple of AlignTo that
\* is <= Address.  It fails for a negative Address and AlignTo >= 2^width.
C2_AlignLowerEveryAddress ==
    op = "AlignLower" => LargestMultipleAtMost(ResZ, ArgZ, AlignExp)

\* C2 amended: whenever the largest multiple of AlignTo that is <= Address is
\* a value of T (as it is for every Address >= 0), AlignLower returns it;
\* Address = 0 returns 0 and an aligned Address is returned unchanged.
C2_AlignLowerLargestMultiple ==
    /\ op = "AlignLower" /\ ~ArgZ.neg => Representable(ty, FloorMultiple(ArgZ, AlignExp))
    /\ op = "AlignLower" /\ Representable(ty, FloorMultiple(ArgZ, AlignExp))
        => /\ LargestMultipleAtMost(ResZ, ArgZ, AlignExp)
           /\ ResZ = FloorMultiple(ArgZ, AlignExp)
           /\ x = {} => res = {}
           /\ ZMultipleOfPow2(ArgZ, AlignExp) => res = x

\* AlignLower(57, 16) has returned 48
C2_Witness ==
    op = "AlignLower" /\ x = NatOf(57) /\ n = {4} /\ res = {4, 5}
        /\ Representable(ty, FloorMultiple(ArgZ, AlignExp))

\* C3: isAlign(x, a) is true exactly when Align(x, a) == x and exactly when
\* AlignLower(x, a) == x, for every x of every type and every power of two a.
C3_AlignPredicatesAgree ==
    op = "isAlign"
        => /\ bres <=> CEq(Align(ty, x, n), Val(x, ty))
           /\ bres <=> CEq(AlignLower(ty, x, n), Val(x, ty))

\* isAlign has answered for the largest 64-bit word and AlignTo = 16
C3_Witness ==
    op = "isAlign" /\ ty = IntType(MaxBits, FALSE) /\ x = Word(MaxBits) /\ n = {4} /\ ~bres

(***************************************************************************)
(* The claims about the powers of two, under SpecPow, SpecRound, SpecLog.  *)
(***************************************************************************)
Positive(z) == (~z.neg) /\ z.mag # {}

IsPow2(z) == (~z.neg) /\ Cardinality(z.mag) = 1

\* C4 as stated: isPowTwo(x) is true exactly for the powers of two 1,2,4,...
\* of the type, and false for 0, for every negative x and for every other x.
\* The code answers true for x = 0.
C4_isPowTwoExact ==
    op = "isPowTwo" => (bres <=> IsPow2(ArgZ))

\* r is the smallest power of two that is >= z
SmallestPow2AtLeast(r, z) ==
    /\ IsPow2(r)
    /\ ZLe(z, r)
    /\ r.mag = {0} \/ ZLt(ZInt(FALSE, {SetMax(r.mag) - 1}), z)

\* z > 0 rounded up to a power of two
CeilPow2(z) == IF IsPow2(z) THEN z ELSE ZInt(FALSE, {Top(z.mag)})

\* C5 as stated: RoundToNextPowOfTwo(0) = 0 and, for every x > 0 of the type,
\* the result is the smallest power of two >= x.  It fails for the x above
\* the largest power of two of the type.
C5_RoundEveryPositive ==
    op = "RoundToNextPowOfTwo"
        => /\ x = {} => res = {}
           /\ Positive(ArgZ) => SmallestPow2AtLeast(ResZ, ArgZ)

\* C5 amended: RoundToNextPowOfTwo(0) = 0 and, for every x > 0 for which the
\* smallest power of two >= x is a value of T, the result is that power of
\* two; a power of two maps to itself.
C5_RoundSmallestPow2 ==
    op = "RoundToNextPowOfTwo"
        => /\ x = {} => res = {}
           /\ Positive(ArgZ) /\ Representable(ty, CeilPow2(ArgZ))
                => /\ SmallestPow2AtLeast(ResZ, ArgZ)
                   /\ ResZ = CeilPow2(ArgZ)
                   /\ IsPow2(ArgZ) => res = x

\* RoundToNextPowOfTwo(5) has returned 8
C5_Witness ==
    op = "RoundToNextPowOfTwo" /\ x = NatOf(5) /\ res = {3}

\* the first argument of the two calls
FirstZ == ZVal(Val(x0, ty))

\* C6 as stated: for every x > 0 of the type, RoundToNextPowOfTwo applied
\* to RoundToNextPowOfTwo(x) returns RoundToNextPowOfTwo(x), and
\* RoundToNextPowOfTwo(0) = 0.  It fails where 1 + x overflows a signed type.
C6_RoundIdempotentEvery ==
    /\ op = "RoundAgain" /\ Positive(FirstZ) => res = x
    /\ op = "RoundToNextPowOfTwo" /\ x = {} => res = {}

\* the smear of x - 1 stays below the largest value of a signed type of at
\* least the width of int: x <= 2^(width - 2)
NoSignedOverflow(T, z) == ~(T.s /\ T.w >= IntBits /\ ZLt(ZInt(FALSE, {T.w - 2}), z))

\* C6 amended: the same for every x > 0 whose rounding does not overflow a
\* signed type: every x of an unsigned or of an 8- or 16-bit type, and
\* x <= 2^(width - 2) of a signed 32- or 64-bit type.
C6_RoundIdempotent ==
    /\ op = "RoundAgain" /\ Positive(FirstZ) /\ NoSignedOverflow(ty, FirstZ) => res = x
    /\ op = "RoundToNextPowOfTwo" /\ x = {} => res = {}

\* RoundToNextPowOfTwo(RoundToNextPowOfTwo(5)) has returned 8
C6_Witness ==
    op = "RoundAgain" /\ x0 = NatOf(5) /\ x = {3} /\ res = {3}

\* C7: Log2IntRoundUp(x) is 0 for x < 1 and otherwise the r with
\* 2^(r-1) <= x < 2^r, which is Log2Int(x) + 1; the static_assert table holds.
C7_Log2IntRoundUpBits ==
    op = "Log2IntRoundUp"
        => /\ ~Positive(ArgZ) => res = {}
           /\ Positive(ArgZ)
                => /\ res \subseteq 0..7
                   /\ ToInt(res) >= 1
                   /\ NatLe({ToInt(res) - 1}, x)
                   /\ NatLt(x, {ToInt(res)})
                   /\ ToInt(res) = ToInt(Log2Int(ty, x, 0)) + 1
           /\ \A i \in DOMAIN Log2IntRoundUpTable :
                x = NatOf(Log2IntRoundUpTable[i][1]) /\ ~IsNeg(Val(x, ty))
                    => res = NatOf(Log2IntRoundUpTable[i][2])

\* Log2IntRoundUp(1024) has returned 11
C7_Witness ==
    op = "Log2IntRoundUp" /\ x = NatOf(1024) /\ res = NatOf(11)

\* x shifted right r times, as a natural
ShiftedRight(v, r) == {i - r : i \in {j \in v : j >= r}}

\* C8: Log2Int(x) is floor(log2(x)) for x >= 1, the number of shifts by one
\* that reduce x to <= 1, and 0 for x = 0; the recursion ends within the
\* width of the type for every input.
C8_Log2IntFloor ==
    op = "Log2Int"
        => /\ res # NoReturn
           /\ res \subseteq 0..5
           /\ ToInt(res) < ty.w
           /\ x = {} => res = {}
           /\ Positive(ArgZ)
                => /\ NatLe({ToInt(res)}, x)
                   /\ NatLt(x, {ToInt(res) + 1})
                   /\ NatLe(ShiftedRight(x, ToInt(res)), {0})
                   /\ \A r \in 0..(ToInt(res) - 1) : NatLt({0}, ShiftedRight(x, r))

\* Log2Int(57) has returned 5
C8_Witness ==
    op = "Log2Int" /\ x = NatOf(57) /\ res = NatOf(5)

\* C9 as stated: SLeft<T>(n) is 2^n for every 0 <= n < width of T, for the
\* types of 8, 16, 32 and 64 bits.  1 << n is an int: it fails for n >= 31
\* of a 64-bit T.
C9_SLeftPowerOfTwo ==
    op = "SLeft" => res = {ToInt(n)}

\* C10 as stated: isDivBy2PowerX(n, x) is true exactly when n mod 2^x = 0,
\* for every n (64-bit n too) and every 0 <= x < width.  1 << x is an int:
\* it fails for x >= 31.
C10_DivisibleIff ==
    op = "isDivBy2PowerX" => (bres <=> ZMultipleOfPow2(ArgZ, ToInt(n)))

(***************************************************************************)
(* The calls of the bit counting functions.                                *)
(***************************************************************************)
\* the 32-bit words counted: the drawn words, the words of one or two set
\* bits, the runs of set bits, their complements, and 0x55555555,
\* 0x33333333, 0x0f0f0f0f, 0x12345678
CountInputs ==
    Inputs(IntBits)
    \cup {{i, j} : i, j \in Word(IntBits)}
    \cup {i..j : i, j \in Word(IntBits)}
    \cup {Word(IntBits) \ {i, j} : i, j \in Word(IntBits)}
    \cup {Word(IntBits) \ (i..j) : i, j \in Word(IntBits)}
    \cup {NatOf(1431655765), NatOf(858993459), NatOf(252645135),
          Hex16(<<22136, 4660>>)}

Dopopcnt32 ==
    /\ op = "init"
    /\ \E v \in CountInputs :
           /\ op' = "popcnt32"
           /\ ty' = uint32_t
           /\ x' = v
           /\ res' = popcnt32(v).v
           /\ UNCHANGED <<n, bres, x0>>

Doclz32 ==
    /\ op = "init"
    /\ \E v \in CountInputs :
           /\ op' = "clz32"
           /\ ty' = uint32_t
           /\ x' = v
           /\ res' = clz32(v).v
           /\ UNCHANGED <<n, bres, x0>>

Doctz32 ==
    /\ op = "init"
    /\ \E v \in CountInputs :
           /\ op' = "ctz32"
           /\ ty' = uint32_t
           /\ x' = v
           /\ res' = ctz32(v).v
           /\ UNCHANGED <<n, bres, x0>>

Doctz32_MSC_VER ==
    /\ op = "init"
    /\ \E v \in CountInputs :
           /\ op' = "ctz32_MSC_VER"
           /\ ty' = uint32_t
           /\ x' = v
           /\ res' = ctz32_MSC_VER(v).v
           /\ UNCHANGED <<n, bres, x0>>

NextCount == Dopopcnt32 \/ Doclz32 \/ Doctz32 \/ Doctz32_MSC_VER \/ Return

SpecCount == Init /\ [][NextCount]_vars

(***************************************************************************)
(* The calls of the flag functions.                                        *)
(***************************************************************************)
\* the masks drawn: no bit, one bit, a few bits, all the bits
Masks ==
    {NatOf(i) : i \in 0..MaxAddr}
    \cup {{7}, {8}, {31}, {0, 31}, Word(IntBits)}

DoFlagToggle ==
    /\ op = "init"
    /\ \E T \in Types : \E N \in AddrInputs(T.w) : \E F \in Masks :
           /\ op' = "FlagToggle"
           /\ ty' = T
           /\ x' = N
           /\ n' = F
           /\ res' = FlagToggle(T, N, F).v
           /\ UNCHANGED <<bres, x0>>

DoFlagOn ==
    /\ op = "init"
    /\ \E T \in Types : \E N \in AddrInputs(T.w) : \E F \in Masks :
           /\ op' = "FlagOn"
           /\ ty' = T
           /\ x' = N
           /\ n' = F
           /\ res' = FlagOn(T, N, F).v
           /\ UNCHANGED <<bres, x0>>

DoFlagOff ==
    /\ op = "init"
    /\ \E T \in Types : \E N \in AddrInputs(T.w) : \E F \in Masks :
           /\ op' = "FlagOff"
           /\ ty' = T
           /\ x' = N
           /\ n' = F
           /\ res' = FlagOff(T, N, F).v
           /\ UNCHANGED <<bres, x0>>

DoFlagIsOn ==
    /\ op = "init"
    /\ \E T \in Types : \E N \in AddrInputs(T.w) : \E F \in Masks :
           /\ op' = "FlagIsOn"
           /\ ty' = T
           /\ x' = N
           /\ n' = F
           /\ bres' = FlagIsOn(T, N, F)
           /\ UNCHANGED <<res, x0>>

DoFlagsAreOn ==
    /\ op = "init"
    /\ \E T \in Types : \E N \in AddrInputs(T.w) : \E F \in Masks :
           /\ op' = "FlagsAreOn"
           /\ ty' = T
           /\ x' = N
           /\ n' = F
           /\ bres' = FlagsAreOn(T, N, F)
           /\ UNCHANGED <<res, x0>>

NextFlags ==
    DoFlagToggle \/ DoFlagOn \/ DoFlagOff \/ DoFlagIsOn \/ DoFlagsAreOn \/ Return

SpecFlags == Init /\ [][NextFlags]_vars

(***************************************************************************)
(* C11: the hash finalizer.                                                *)
(***************************************************************************)
RECURSIVE ShiftAddMul(_, _, _, _, _)
\* the sum modulo 2^w of a * 2^k over the bits k of b in lo..hi: the
\* product by shifting and adding
ShiftAddMul(a, b, lo, hi, w) ==
    IF lo = hi
    THEN IF lo \in b THEN {i + lo : i \in a} \cap (0..(w - 1)) ELSE {}
    ELSE AddBits(ShiftAddMul(a, b, lo, (lo + hi) \div 2, w),
                 ShiftAddMul(a, b, ((lo + hi) \div 2) + 1, hi, w), FALSE, w)

\* a * b mod 2^w
MulMod(a, b, w) == ShiftAddMul(a, b, 0, w - 1, w)

\* a xor (a div 2^s)
XorShifted(a, s) ==
    LET b == {i - s : i \in {j \in a : j >= s}}
    IN  {i \in a \cup b : ~(i \in a /\ i \in b)}

\* the five steps on the natural h < 2^w, for shifts s1, s2, s3 and
\* multipliers c1, c2
Finalizer(h, w, s1, c1, s2, c2, s3) ==
    XorShifted(MulMod(XorShifted(MulMod(XorShifted(h, s1), c1, w), s2), c2, w), s3)

\* the finalizer of a 4-byte and of an 8-byte type
Finalizer32(h) ==
    Finalizer(h, 32, 16, Hex16(<<51819, 34283>>), 13, Hex16(<<44597, 49842>>), 16)

Finalizer64(h) ==
    Finalizer(h, 64, 33, Hex16(<<36045, 60757, 45015, 65361>>), 33,
              Hex16(<<60499, 6789, 47614, 50382>>), 33)

\* C11: MurmurHash3(h) of a 4-byte type is h ^= h >> 16; h *= 0x85ebca6b;
\* h ^= h >> 13; h *= 0xc2b2ae35; h ^= h >> 16 modulo 2^32 on the unsigned bit
\* pattern of h (of an 8-byte type: shifts of 33, 0xff51afd7ed558ccd and
\* 0xc4ceb9fe1a85ec53, modulo 2^64); a signed input gives the bit pattern the
\* unsigned input of the same bits gives; 0 gives 0.  The finalizer of 1 is
\* 0x514e28b7 (0xb456bcfc34c2cb2c for 8 bytes).
C11_MurmurHash3Finalizer ==
    op = "MurmurHash3"
        => /\ ty.w = 32 => res = Finalizer32(x)
           /\ ty.w = 64 => res = Finalizer64(x)
           /\ res = MurmurHash3(to_uint_t(ty), x).v
           /\ x = {} => res = {}
           /\ (x = {0} /\ ty.w = 32) => res = Hex16(<<10423, 20814>>)
           /\ (x = {0} /\ ty.w = 64) => res = Hex16(<<52012, 13506, 48380, 46166>>)

\* MurmurHash3 of the int -1 has returned 0x81f16f39
C11_Witness ==
    /\ op = "MurmurHash3"
    /\ ty = IntT
    /\ x = Word(32)
    /\ res = Hex16(<<28473, 33265>>)

(***************************************************************************)
(* C12, C13, C14: the bit counting functions.                              *)
(***************************************************************************)
\* the number of zero bits below the lowest set bit of a 32-bit word, 32 for 0
TrailingZeros(v) == IF v = {} THEN 32 ELSE SetMin(v)

\* the number of zero bits above the highest set bit of a 32-bit word, 32 for 0
LeadingZeros(v) == IF v = {} THEN 32 ELSE 31 - SetMax(v)

\* C12: ctz32(x) is 32 for x = 0 and the index of the lowest set bit
\* otherwise, and the definition over _BitScanForward and the portable
\* popcnt32((x & -x) - 1) return the same value for every 32-bit x.
C12_ctz32FormsAgree ==
    op \in {"ctz32", "ctz32_MSC_VER"}
        => /\ res = NatOf(TrailingZeros(x))
           /\ ctz32(x).v = ctz32_MSC_VER(x).v
           /\ ~ctz32(x).ub

\* the portable ctz32(0) has returned 32
C12_Witness ==
    op = "ctz32" /\ x = {} /\ res = NatOf(32)

\* C13: clz32(x) is 32 for x = 0 and the number of zero bits above the
\* highest set bit otherwise: clz32(1) = 31, clz32(2^31) = 0,
\* clz32(0xFFFFFFFF) = 0, clz32(16) = 27.
C13_clz32LeadingZeros ==
    op = "clz32"
        => /\ res = NatOf(LeadingZeros(x))
           /\ x = {0} => res = NatOf(31)
           /\ x = {31} => res = {}
           /\ x = Word(32) => res = {}
           /\ x = {4} => res = NatOf(27)

\* clz32(16) has returned 27
C13_Witness ==
    op = "clz32" /\ x = {4} /\ res = NatOf(27)

\* C14: popcnt32(x) is the number of set bits of x, for every 32-bit x: 0
\* for 0 and 32 for 0xFFFFFFFF.
C14_popcnt32Exact ==
    op = "popcnt32"
        => /\ res = NatOf(Cardinality(x))
           /\ x = {} => res = {}
           /\ x = Word(32) => res = NatOf(32)

\* popcnt32(0xFFFFFFFF) has returned 32
C14_Witness ==
    op = "popcnt32" /\ x = Word(32) /\ res = NatOf(32)

(***************************************************************************)
(* C15: the empty mask.                                                    *)
(***************************************************************************)
\* C15: with the mask F = 0, for every N: FlagIsOn(N, 0) is false,
\* FlagsAreOn(N, 0) is true, and FlagToggle, FlagOn and FlagOff leave N
\* unchanged.
C15_EmptyMask ==
    n = {}
        => /\ op = "FlagIsOn" => ~bres
           /\ op = "FlagsAreOn" => bres
           /\ op \in {"FlagToggle", "FlagOn", "FlagOff"} => res = x

\* FlagOff of the 64-bit N of all ones with the mask 0 has left N unchanged
C15_Witness ==
    /\ op = "FlagOff"
    /\ ty = uint64_t
    /\ n = {}
    /\ x = Word(MaxBits)
    /\ res = x

(***************************************************************************)
(* C16: the logarithms and the bit counts agree.                           *)
(***************************************************************************)
\* C16: for every 32-bit unsigned x, 0 included,
\* Log2IntRoundUp(x) + clz32(x) == 32, and for every x that is a power of
\* two ctz32(x) == Log2Int(x), with either definition of ctz32.
C16_LogsAgreeWithCounts ==
    /\ op = "clz32"
          => LET sum == CAdd(Val(Log2IntRoundUp(uint32_t, x), uint32_t),
                            Val(res, uint32_t))
             IN  ~sum.ub /\ CEq(sum, IntOf(32))
    /\ (op \in {"ctz32", "ctz32_MSC_VER"} /\ Cardinality(x) = 1)
          => /\ Log2Int(uint32_t, x, 0) # NoReturn
             /\ CEq(Val(res, uint32_t), Val(Log2Int(uint32_t, x, 0), uint32_t))

\* clz32(0) has returned 32, and Log2IntRoundUp(0) is 0
C16_Witness ==
    op = "clz32" /\ x = {} /\ res = NatOf(32) /\ Log2IntRoundUp(uint32_t, x) = {}

Next == NextAlign \/ NextPow \/ NextLog \/ NextRound \/ NextHash \/ NextCount \/ NextFlags

Spec == Init /\ [][Next]_vars

====
